---- MODULE Spec2Model ----
(***************************************************************************)
(* Fixed-point simplex noise (noise.go): the permutation table, the        *)
(* gradient helpers grad1/grad2/grad3 and the evaluators Noise1, Noise2    *)
(* and Noise3, with Go's int32/int64 arithmetic kept at its width.         *)
(*                                                                         *)
(* An int32 is a TLA+ integer in -2^31 .. 2^31-1.  An int64 is a tuple of  *)
(* five limbs of 15 bits, least significant first, in two's                *)
(* complement, kept sign-extended from bit 63.                             *)
(***************************************************************************)
EXTENDS Integers, Sequences, FiniteSets, TLC

(***************************************************************************)
(* Machine arithmetic.                                                     *)
(***************************************************************************)
LimbBase == 2^15
LimbIdx == 1..5

MinInt32 == -2147483647 - 1
MaxInt32 == -(MinInt32 + 1)

\* The values of the two machine types.  Every operation below is guarded by
\* the types of its operands, so an operand is a value by the time the
\* operation reads it.
Int32 == MinInt32..MaxInt32
Int64 == [LimbIdx -> 0..(LimbBase - 1)]

\* A limb function as a tuple.
Limbs(f) == <<f[1], f[2], f[3], f[4], f[5]>>

RECURSIVE Carry(_, _, _)
\* Propagates carries (or borrows) through limb sums c[i..5].
Carry(c, i, cy) ==
    IF i > 5 THEN <<>>
    ELSE LET v == c[i] + cy
         IN  <<v % LimbBase>> \o Carry(c, i + 1, v \div LimbBase)

SignLimb(a) == IF a[5] >= LimbBase \div 2 THEN LimbBase - 1 ELSE 0
IsNeg64(a) == a[5] >= LimbBase \div 2

\* Truncation to 64 bits: bits 60..63 live in the low 4 bits of the top limb.
Wrap64(a) ==
    LET top == a[5] % 16
    IN  Limbs([a EXCEPT ![5] = IF top >= 8 THEN top + (LimbBase - 16) ELSE top])

\* int64(n) for an int32 n.
I64(n) ==
    CASE n \in Int32 ->
    Limbs([i \in LimbIdx |->
        IF i = 1 THEN n % LimbBase
        ELSE IF i = 2 THEN (n \div LimbBase) % LimbBase
        ELSE IF i = 3 THEN (n \div (LimbBase * LimbBase)) % LimbBase
        ELSE IF n < 0 THEN LimbBase - 1 ELSE 0])

\* An untyped constant that fits 45 bits, given as hi * 2^30 + lo.
Const64(hi, lo) ==
    Limbs([i \in LimbIdx |->
        IF i = 1 THEN lo % LimbBase
        ELSE IF i = 2 THEN (lo \div LimbBase) % LimbBase
        ELSE IF i = 3 THEN hi % LimbBase
        ELSE IF i = 4 THEN (hi \div LimbBase) % LimbBase
        ELSE 0])

\* int32(a) for an int64 a: the low 32 bits, read as signed.
I32(a) ==
    CASE a \in Int64 ->
    LET top == a[3] % 4
        low == a[2] * LimbBase + a[1]
    IN  IF top >= 2 THEN (top - 4) * (LimbBase * LimbBase) + low
        ELSE top * (LimbBase * LimbBase) + low

Fits32(a) == I64(I32(a)) = a

Sub64(a, b) ==
    CASE a \in Int64 /\ b \in Int64 ->
        Wrap64(Carry([i \in LimbIdx |-> a[i] - b[i]], 1, 0))

\* a * m for one limb m, before truncation.
MulLimb(a, m) == Carry([i \in LimbIdx |-> a[i] * m], 1, 0)

\* a * 2^(15 * k), before truncation.
LimbsUp(a, k) == [i \in LimbIdx |-> IF i - k >= 1 THEN a[i - k] ELSE 0]

\* floor(a / 2^(15 * k)).
LimbsDown(a, k) == [i \in LimbIdx |-> IF i + k <= 5 THEN a[i + k] ELSE SignLimb(a)]

\* u + v on limb tuples, before truncation.
AddLimbs(u, v) == CASE u \in Int64 /\ v \in Int64 -> Carry([i \in LimbIdx |-> u[i] + v[i]], 1, 0)

Add64(a, b) == Wrap64(AddLimbs(a, b))

RECURSIVE MulRows(_, _, _)
\* The schoolbook rows a * b[j] * 2^(15 * (j-1)) for rows j..5, summed.
MulRows(a, b, j) ==
    IF j > 5 THEN <<0, 0, 0, 0, 0>>
    ELSE AddLimbs(Limbs(LimbsUp(MulLimb(a, b[j]), j - 1)), MulRows(a, b, j + 1))

Mul64(a, b) == CASE a \in Int64 /\ b \in Int64 -> Wrap64(MulRows(a, b, 1))

\* a << k on int64.
Shl64(a, k) ==
    CASE a \in Int64 -> Wrap64(MulLimb(LimbsUp(a, k \div 15), 2^(k % 15)))

\* a >> k on int64 (arithmetic: rounds toward minus infinity).
Shr64(a, k) ==
    CASE a \in Int64 ->
    LET d == LimbsDown(a, k \div 15)
        r == k % 15
        lo == 2^r
        hi == 2^(15 - r)
    IN  Limbs([i \in LimbIdx |->
            (d[i] \div lo) + ((IF i < 5 THEN d[i + 1] ELSE SignLimb(d)) % lo) * hi])

Less64(a, b) == CASE a \in Int64 /\ b \in Int64 -> IsNeg64(Sub64(a, b))

\* int32 operations, wrapping as Go's do.
Add32(a, b) == CASE a \in Int32 /\ b \in Int32 -> I32(Add64(I64(a), I64(b)))
Sub32(a, b) == CASE a \in Int32 /\ b \in Int32 -> I32(Sub64(I64(a), I64(b)))
Mul32(a, b) == CASE a \in Int32 /\ b \in Int32 -> I32(Mul64(I64(a), I64(b)))
Neg32(a) == Sub32(0, a)
Shl32(a, k) == Mul32(a, 2^k)
Shr32(a, k) == CASE a \in Int32 -> a \div 2^k

\* a / d on int32 for d > 0 (Go truncates toward zero).
Div32(a, d) ==
    CASE a \in Int32 ->
    IF a >= 0 THEN a \div d
    ELSE LET m == -(a + 1)
         IN  -((m \div d) + (IF m % d = d - 1 THEN 1 ELSE 0))

RECURSIVE And32(_, _)
\* a & mask for a mask >= 0, bit by bit on the two's-complement form of a.
And32(a, mask) ==
    IF mask = 0 THEN 0
    ELSE (a % 2) * (mask % 2) + 2 * And32(a \div 2, mask \div 2)

\* int16(n): the low 16 bits, read as signed.
Int16(n) ==
    CASE n \in Int32 ->
    LET low == n % 65536
    IN  IF low >= 32768 THEN low - 65536 ELSE low

\* int32(v) for a uint8 v.
Int32OfByte(v) == v

(***************************************************************************)
(* The permutation table.                                                  *)
(***************************************************************************)
PermTable ==
    << 151, 160, 137, 91, 90, 15,
       131, 13, 201, 95, 96, 53, 194, 233, 7, 225, 140, 36, 103, 30, 69, 142, 8, 99, 37, 240, 21, 10, 23,
       190, 6, 148, 247, 120, 234, 75, 0, 26, 197, 62, 94, 252, 219, 203, 117, 35, 11, 32, 57, 177, 33,
       88, 237, 149, 56, 87, 174, 20, 125, 136, 171, 168, 68, 175, 74, 165, 71, 134, 139, 48, 27, 166,
       77, 146, 158, 231, 83, 111, 229, 122, 60, 211, 133, 230, 220, 105, 92, 41, 55, 46, 245, 40, 244,
       102, 143, 54, 65, 25, 63, 161, 1, 216, 80, 73, 209, 76, 132, 187, 208, 89, 18, 169, 200, 196,
       135, 130, 116, 188, 159, 86, 164, 100, 109, 198, 173, 186, 3, 64, 52, 217, 226, 250, 124, 123,
       5, 202, 38, 147, 118, 126, 255, 82, 85, 212, 207, 206, 59, 227, 47, 16, 58, 17, 182, 189, 28, 42,
       223, 183, 170, 213, 119, 248, 152, 2, 44, 154, 163, 70, 221, 153, 101, 155, 167, 43, 172, 9,
       129, 22, 39, 253, 19, 98, 108, 110, 79, 113, 224, 232, 178, 185, 112, 104, 218, 246, 97, 228,
       251, 34, 242, 193, 238, 210, 144, 12, 191, 179, 162, 241, 81, 51, 145, 235, 249, 14, 239, 107,
       49, 192, 214, 31, 181, 199, 106, 157, 184, 84, 204, 176, 115, 121, 50, 45, 127, 4, 150, 254,
       138, 236, 205, 93, 222, 114, 67, 29, 24, 72, 243, 141, 128, 195, 78, 66, 215, 61, 156, 180 >>

\* PermInit with the index slip of a 1-based transcription: entry 0 repeats
\* entry 1's source and the last value is lost.
PermInitSlip == [i \in 0..(Len(PermTable) - 1) |-> PermTable[IF i = 0 THEN 1 ELSE i]]

\* The Go array indexed from 0.
PermInit == [i \in 0..(Len(PermTable) - 1) |-> PermTable[i + 1]]

(***************************************************************************)
(* Gradient helpers.                                                       *)
(***************************************************************************)
q(cond, v1, v2) == IF cond THEN v1 ELSE v2

\* grad1 with the coordinate rescaled by a shift before the multiply.
grad1Shifted(hash, x) ==
    LET h == And32(hash, 15)
        g == 1 + And32(h, 7)
        grad == IF And32(h, 8) # 0 THEN -g ELSE g
    IN  Mul32(grad, Shr32(x, 1))

grad1(hash, x) ==
    LET h == And32(hash, 15)
        g == 1 + And32(h, 7)
        grad == IF And32(h, 8) # 0 THEN -g ELSE g
    IN  Mul32(grad, x)

grad2(hash, x, y) ==
    LET h == And32(hash, 7)
        u == q(h < 4, x, y)
        v == q(h < 4, y, x)
    IN  Add32(q(And32(h, 1) # 0, Neg32(u), u),
              q(And32(h, 2) # 0, Mul32(-2, v), Mul32(2, v)))

\* grad3 with grad2's threshold in the choice of u.
grad3Slip(hash, x, y, z) ==
    LET h == And32(hash, 15)
        u == q(h < 4, x, y)
        v == q(h < 4, y, q(h = 12 \/ h = 14, x, z))
    IN  Add32(q(And32(h, 1) # 0, Neg32(u), u),
              q(And32(h, 2) # 0, Neg32(v), v))

grad3(hash, x, y, z) ==
    LET h == And32(hash, 15)
        u == q(h < 8, x, y)
        v == q(h < 4, y, q(h = 12 \/ h = 14, x, z))
    IN  Add32(q(And32(h, 1) # 0, Neg32(u), u),
              q(And32(h, 2) # 0, Neg32(v), v))

\* Whether the int32 operation a * b, a + b loses bits.
MulWraps32(a, b) == ~Fits32(Mul64(I64(a), I64(b)))
AddWraps32(a, b) == ~Fits32(Add64(I64(a), I64(b)))

(***************************************************************************)
(* Array indexing.  Go checks every index against the array's bounds and   *)
(* panics outside them; InBounds is that check.                            *)
(***************************************************************************)
\* v % 256 as Go computes it: the remainder has the sign of v.
Mask8Rem(v) == v - 256 * Div32(v, 256)

Mask8(v) == And32(v, 255)
InBounds(pm, idx) == idx \in DOMAIN pm
PermAt(pm, idx) == IF InBounds(pm, idx) THEN pm[idx] ELSE 0

(***************************************************************************)
(* Noise1.                                                                 *)
(***************************************************************************)
\* Lines 96-99: the lattice points and the offsets from them.
N1Split(x) ==
    LET i0 == Shr32(x, 12)
        x0 == And32(x, 4095)
    IN  [i |-> <<i0, Add32(i0, 1)>>, d |-> <<x0, Sub32(x0, 4096)>>]

\* Lines 101-104 and 106-109: one lattice point's contribution.
N1Corner(pm, i, d) ==
    LET sq == Mul32(d, d)
        t == Sub32(32768, Shr32(sq, 9))
        t2 == Shr32(Mul32(t, t), 15)
        t4 == Shr32(Mul32(t2, t2), 15)
        idx == Mask8(i)
        g == grad1(PermAt(pm, idx), d)
    IN  [t |-> t4,
         n |-> Shr32(Mul32(t4, g), 12),
         reads |-> {idx},
         wraps |-> MulWraps32(d, d) \/ MulWraps32(t, t) \/ MulWraps32(t2, t2)
                   \/ MulWraps32(t4, g)]

N1Bias == 2503
N1Shift == 14
N1Div == 40225

\* N1Scale with the divisor rounded to 40000.
N1ScaleLoose(n0, n1) ==
    Div32(Shl32(Add32(Add32(n0, n1), N1Bias), N1Shift), 40000)

\* Lines 111-113: the sum, the offset fix and the rescale.
N1Scale(n0, n1) ==
    Div32(Shl32(Add32(Add32(n0, n1), N1Bias), N1Shift), N1Div)

N1ScaleWraps(n0, n1) ==
    \/ AddWraps32(n0, n1)
    \/ AddWraps32(Add32(n0, n1), N1Bias)
    \/ MulWraps32(Add32(Add32(n0, n1), N1Bias), 2^N1Shift)

\* Noise1 run alone on the table pm.
Noise1(pm, x) ==
    LET sp == N1Split(x)
    IN  Int16(N1Scale(N1Corner(pm, sp.i[1], sp.d[1]).n, N1Corner(pm, sp.i[2], sp.d[2]).n))

(***************************************************************************)
(* Noise2.                                                                 *)
(***************************************************************************)
F2 == 1572067135
G2 == 907633384

\* 1 << k as an untyped constant used in int64 arithmetic.
Pow64(k) == Shl64(I64(1), k)

\* (x>>1 + s>>1) >> 11: the cell index of coordinate x under skew s.
CellIndex(x, s) == Shr32(Add32(Shr32(x, 1), Shr32(s, 1)), 11)

\* Lines 126-154: the cell, the simplex in it and the offsets of the point
\* from the simplex's three corners.
N2Skew(x, y) ==
    LET s == I32(Shr64(Mul64(Add64(I64(x), I64(y)), I64(F2)), 32))
        i == CellIndex(x, s)
        j == CellIndex(y, s)
        t == Mul64(Add64(I64(i), I64(j)), I64(G2))
        X0 == Sub64(Shl64(I64(i), 32), t)
        Y0 == Sub64(Shl64(I64(j), 32), t)
        x0 == Sub64(Shl64(I64(x), 20), X0)
        y0 == Sub64(Shl64(I64(y), 20), Y0)
        i1 == IF Less64(y0, x0) THEN 1 ELSE 0
        j1 == IF Less64(y0, x0) THEN 0 ELSE 1
        twoG2 == Mul64(I64(2), I64(G2))
    IN  [s |-> s,
         cell |-> <<i, j>>,
         step |-> << <<0, 0>>, <<i1, j1>>, <<1, 1>> >>,
         off |-> << <<x0, y0>>,
                    <<Add64(Sub64(x0, Shl64(I64(i1), 32)), I64(G2)),
                      Add64(Sub64(y0, Shl64(I64(j1), 32)), I64(G2))>>,
                    <<Add64(Sub64(x0, Pow64(32)), twoG2),
                      Add64(Sub64(y0, Pow64(32)), twoG2)>> >>]

\* t = 0.5 - x*x - y*y in .16, lines 159, 166 and 173.
Falloff2(xc, yc) ==
    LET xs == Shr64(xc, 16)
        ys == Shr64(yc, 16)
    IN  I32(Shr64(Sub64(Sub64(Pow64(31), Mul64(xs, xs)), Mul64(ys, ys)), 16))

\* The corner's hash index (i + perm[j & 0xff]) & 0xff and the index inside it.
Index2(pm, ci, cj) ==
    LET inner == Mask8(cj)
    IN  <<inner, Mask8(Add32(ci, Int32OfByte(PermAt(pm, inner))))>>

\* The body of "if t > 0", lines 161-163: t^4 times the gradient.
Contrib2(pm, t, ci, cj, xc, yc) ==
    LET t2 == Shr32(Mul32(t, t), 16)
        t4 == Shr32(Mul32(t2, t2), 16)
        idx == Index2(pm, ci, cj)
        g == grad2(PermAt(pm, idx[2]), I32(Shr64(xc, 17)), I32(Shr64(yc, 17)))
    IN  [n |-> Mul32(Shr32(t4, 1), g), reads |-> {idx[1], idx[2]}]

\* The gate left out: every corner contributes.
GateOpen(t) == TRUE

\* Whether a corner with falloff t contributes.
Gate(t) == t > 0

\* Lines 159-164, 166-171, 173-178: one corner's falloff and contribution;
\* n stays at its zero value when the gate is closed.
Corner2(pm, cell, step, off) ==
    LET t == Falloff2(off[1], off[2])
        c == Contrib2(pm, t, Add32(cell[1], step[1]), Add32(cell[2], step[2]), off[1], off[2])
    IN  IF Gate(t) THEN [t |-> t, n |-> c.n, reads |-> c.reads]
        ELSE [t |-> t, n |-> 0, reads |-> {}]

N2Shift == 6
N2Div == 46360

\* N2Scale with the divisor rounded to 46000.
N2ScaleLoose(n0, n1, n2) ==
    Div32(Shl32(Add32(Add32(n0, n1), n2), N2Shift), 46000)

\* Lines 182-183: the sum and the rescale.
N2Scale(n0, n1, n2) ==
    Div32(Shl32(Add32(Add32(n0, n1), n2), N2Shift), N2Div)

N2ScaleWraps(n0, n1, n2) ==
    \/ AddWraps32(n0, n1)
    \/ AddWraps32(Add32(n0, n1), n2)
    \/ MulWraps32(Add32(Add32(n0, n1), n2), 2^N2Shift)

\* Noise2 run alone on the table pm.
Noise2(pm, x, y) ==
    LET sk == N2Skew(x, y)
        c == [k \in 1..3 |-> Corner2(pm, sk.cell, sk.step[k], sk.off[k])]
    IN  Int16(N2Scale(c[1].n, c[2].n, c[3].n))

(***************************************************************************)
(* Noise3.                                                                 *)
(***************************************************************************)
F3 == 1431655764
G3 == 715827884

\* fix0_6 = 2576980378, 0.6 in .32: 2 * 2^30 + 429496730.
fix0_6 == Const64(2, 429496730)

\* SimplexOrder with the first inner test strict (y0 > z0 for y0 >= z0).
SimplexOrderStrict(x0, y0, z0) ==
    IF ~Less64(x0, y0)
    THEN IF Less64(z0, y0) THEN << <<1, 0, 0>>, <<1, 1, 0>> >>
         ELSE IF ~Less64(x0, z0) THEN << <<1, 0, 0>>, <<1, 0, 1>> >>
         ELSE << <<0, 0, 1>>, <<1, 0, 1>> >>
    ELSE IF Less64(y0, z0) THEN << <<0, 0, 1>>, <<0, 1, 1>> >>
         ELSE IF Less64(x0, z0) THEN << <<0, 1, 0>>, <<0, 1, 1>> >>
         ELSE << <<0, 1, 0>>, <<1, 1, 0>> >>

\* Lines 216-262: the second and third corner of the simplex, by the order of
\* the offsets.
SimplexOrder(x0, y0, z0) ==
    IF ~Less64(x0, y0)
    THEN IF ~Less64(y0, z0) THEN << <<1, 0, 0>>, <<1, 1, 0>> >>
         ELSE IF ~Less64(x0, z0) THEN << <<1, 0, 0>>, <<1, 0, 1>> >>
         ELSE << <<0, 0, 1>>, <<1, 0, 1>> >>
    ELSE IF Less64(y0, z0) THEN << <<0, 0, 1>>, <<0, 1, 1>> >>
         ELSE IF Less64(x0, z0) THEN << <<0, 1, 0>>, <<0, 1, 1>> >>
         ELSE << <<0, 1, 0>>, <<1, 1, 0>> >>

\* x0 - int64(i)<<32 + m*G3: an offset moved to the corner m steps along.
Unskew3(v, st, m) == Add64(Sub64(v, Shl64(I64(st), 32)), Mul64(I64(m), I64(G3)))

\* Lines 197-277.
N3Skew(x, y, z) ==
    LET s == I32(Shr64(Mul64(Add64(Add64(I64(x), I64(y)), I64(z)), I64(F3)), 32))
        i == CellIndex(x, s)
        j == CellIndex(y, s)
        k == CellIndex(z, s)
        t == Mul64(Add64(Add64(I64(i), I64(j)), I64(k)), I64(G3))
        x0 == Sub64(Shl64(I64(x), 20), Sub64(Shl64(I64(i), 32), t))
        y0 == Sub64(Shl64(I64(y), 20), Sub64(Shl64(I64(j), 32), t))
        z0 == Sub64(Shl64(I64(z), 20), Sub64(Shl64(I64(k), 32), t))
        ord == SimplexOrder(x0, y0, z0)
        step == << <<0, 0, 0>>, ord[1], ord[2], <<1, 1, 1>> >>
    IN  [s |-> s,
         cell |-> <<i, j, k>>,
         step |-> step,
         off |-> [m \in 1..4 |->
                    IF m = 1 THEN <<x0, y0, z0>>
                    ELSE <<Unskew3(x0, step[m][1], m - 1),
                           Unskew3(y0, step[m][2], m - 1),
                           Unskew3(z0, step[m][3], m - 1)>>]]

\* t = 0.6 - x*x - y*y - z*z in .16, lines 283, 291, 299 and 307.
Falloff3(xc, yc, zc) ==
    LET xs == Shr64(xc, 16)
        ys == Shr64(yc, 16)
        zs == Shr64(zc, 16)
    IN  I32(Shr64(Sub64(Sub64(Sub64(fix0_6, Mul64(xs, xs)), Mul64(ys, ys)), Mul64(zs, zs)), 16))

\* (i + perm[(j + perm[k & 0xff]) & 0xff]) & 0xff and the indices inside it.
Index3(pm, ci, cj, ck) ==
    LET inner == Mask8(ck)
        mid == Mask8(Add32(cj, Int32OfByte(PermAt(pm, inner))))
    IN  <<inner, mid, Mask8(Add32(ci, Int32OfByte(PermAt(pm, mid))))>>

\* The body of "if t > 0", lines 285-288.
Contrib3(pm, t, ci, cj, ck, off) ==
    LET t2 == Shr32(Mul32(t, t), 16)
        t4 == Shr32(Mul32(t2, t2), 16)
        idx == Index3(pm, ci, cj, ck)
        g == grad3(PermAt(pm, idx[3]), I32(Shr64(off[1], 17)), I32(Shr64(off[2], 17)),
                   I32(Shr64(off[3], 17)))
    IN  [n |-> Mul32(Shr32(t4, 1), g), reads |-> {idx[1], idx[2], idx[3]}]

\* Lines 283-313: one corner's falloff and contribution.
Corner3(pm, cell, step, off) ==
    LET t == Falloff3(off[1], off[2], off[3])
        c == Contrib3(pm, t, Add32(cell[1], step[1]), Add32(cell[2], step[2]),
                      Add32(cell[3], step[3]), off)
    IN  IF Gate(t) THEN [t |-> t, n |-> c.n, reads |-> c.reads]
        ELSE [t |-> t, n |-> 0, reads |-> {}]

N3Shift == 6
N3Div == 64120

\* Lines 317-318.
N3Scale(n0, n1, n2, n3) ==
    Div32(Shl32(Add32(Add32(Add32(n0, n1), n2), n3), N3Shift), N3Div)

\* Noise3 run alone on the table pm.
Noise3(pm, x, y, z) ==
    LET sk == N3Skew(x, y, z)
        c == [m \in 1..4 |-> Corner3(pm, sk.cell, sk.step[m], sk.off[m])]
    IN  Int16(N3Scale(c[1].n, c[2].n, c[3].n, c[4].n))

(***************************************************************************)
(* The callers.  Each caller runs one evaluator at a time, a statement     *)
(* group per step; the locals of a call are the caller's own, and perm is  *)
(* the one package-level variable every call reads.                        *)
(***************************************************************************)
VARIABLES
    perm,   \* the package-level table
    pc,     \* pc[p]: where caller p is in its call
    call,   \* call[p]: the evaluator called and its arguments
    loc,    \* loc[p]: the locals of the call
    ret,    \* ret[p]: the int16 the last call returned
    gr      \* the last direct evaluation of a gradient helper

vars == <<perm, pc, call, loc, ret, gr>>

NumCallers == 2
Callers == 1..NumCallers

\* Coordinates per axis of the sample grid, less one.
GridN == 4

NoLocals == [sk |-> <<>>, t |-> <<>>, n |-> <<>>, reads |-> {}, wraps |-> FALSE, out |-> 0]
NoCall == [fn |-> "none", args |-> <<>>]
NoGrad == [fn |-> "none", hash |-> 0, args |-> <<>>, out |-> 0]

\* A lookup that also advances the entry it read.
PermAfterReadBump(pm, idx) == [pm EXCEPT ![idx] = (@ + 1) % 256]

\* An index expression perm[idx] is a read: it leaves the table as it was.
PermAfterRead(pm, idx) == pm

Init ==
    /\ perm = PermInit
    /\ pc = [p \in Callers |-> "idle"]
    /\ call = [p \in Callers |-> NoCall]
    /\ loc = [p \in Callers |-> NoLocals]
    /\ ret = [p \in Callers |-> 0]
    /\ gr = NoGrad

\* Entering an evaluator: the arguments are bound and the locals are fresh.
Enter(p, fn, args, first) ==
    /\ pc[p] = "idle"
    /\ pc' = [pc EXCEPT ![p] = first]
    /\ call' = [call EXCEPT ![p] = [fn |-> fn, args |-> args]]
    /\ loc' = [loc EXCEPT ![p] = NoLocals]
    /\ UNCHANGED <<perm, ret, gr>>

CallNoise1(p, x) == Enter(p, "Noise1", <<x>>, "n1split")
CallNoise2(p, x, y) == Enter(p, "Noise2", <<x, y>>, "n2skew")
CallNoise3(p, x, y, z) == Enter(p, "Noise3", <<x, y, z>>, "n3skew")

\* The locals after one more corner with result r.
WithCorner(l, r) ==
    [l EXCEPT !.t = Append(@, r.t), !.n = Append(@, r.n),
              !.reads = @ \cup r.reads, !.wraps = @ \/ ("wraps" \in DOMAIN r /\ r.wraps)]

\* A corner step of caller p with result r, the last of `last` corners.  An
\* index outside the table panics.
CornerStep(p, r, again, next, last) ==
    /\ loc' = [loc EXCEPT ![p] = WithCorner(@, r)]
    /\ pc' = [pc EXCEPT ![p] =
                IF \E idx \in r.reads : ~InBounds(perm, idx) THEN "panic"
                ELSE IF Len(loc[p].n) + 1 = last THEN next ELSE again]
    /\ perm' = [idx \in DOMAIN perm |->
                  IF idx \in r.reads THEN PermAfterRead(perm, idx)[idx] ELSE perm[idx]]
    /\ UNCHANGED <<call, ret, gr>>

\* The rescaled sum `out` is converted and returned.
Finish(p, out, wraps) ==
    /\ loc' = [loc EXCEPT ![p].out = out, ![p].wraps = @ \/ wraps]
    /\ ret' = [ret EXCEPT ![p] = Int16(out)]
    /\ pc' = [pc EXCEPT ![p] = "done"]
    /\ UNCHANGED <<perm, call, gr>>

N1DoSplit(p) ==
    /\ pc[p] = "n1split"
    /\ loc' = [loc EXCEPT ![p].sk = N1Split(call[p].args[1])]
    /\ pc' = [pc EXCEPT ![p] = "n1corner"]
    /\ UNCHANGED <<perm, call, ret, gr>>

N1DoCorner(p) ==
    /\ pc[p] = "n1corner"
    /\ LET c == Len(loc[p].n) + 1
       IN  CornerStep(p, N1Corner(perm, loc[p].sk.i[c], loc[p].sk.d[c]), "n1corner", "n1sum", 2)

N1DoSum(p) ==
    /\ pc[p] = "n1sum"
    /\ Finish(p, N1Scale(loc[p].n[1], loc[p].n[2]), N1ScaleWraps(loc[p].n[1], loc[p].n[2]))

N2DoSkew(p) ==
    /\ pc[p] = "n2skew"
    /\ loc' = [loc EXCEPT ![p].sk = N2Skew(call[p].args[1], call[p].args[2])]
    /\ pc' = [pc EXCEPT ![p] = "n2corner"]
    /\ UNCHANGED <<perm, call, ret, gr>>

N2DoCorner(p) ==
    /\ pc[p] = "n2corner"
    /\ LET c == Len(loc[p].n) + 1
           sk == loc[p].sk
       IN  CornerStep(p, Corner2(perm, sk.cell, sk.step[c], sk.off[c]), "n2corner", "n2sum", 3)

N2DoSum(p) ==
    /\ pc[p] = "n2sum"
    /\ LET n == loc[p].n
       IN  Finish(p, N2Scale(n[1], n[2], n[3]), N2ScaleWraps(n[1], n[2], n[3]))

N3DoSkew(p) ==
    /\ pc[p] = "n3skew"
    /\ loc' = [loc EXCEPT ![p].sk = N3Skew(call[p].args[1], call[p].args[2], call[p].args[3])]
    /\ pc' = [pc EXCEPT ![p] = "n3corner"]
    /\ UNCHANGED <<perm, call, ret, gr>>

N3DoCorner(p) ==
    /\ pc[p] = "n3corner"
    /\ LET c == Len(loc[p].n) + 1
           sk == loc[p].sk
       IN  CornerStep(p, Corner3(perm, sk.cell, sk.step[c], sk.off[c]), "n3corner", "n3sum", 4)

N3DoSum(p) ==
    /\ pc[p] = "n3sum"
    /\ LET n == loc[p].n
       IN  Finish(p, N3Scale(n[1], n[2], n[3], n[4]), FALSE)

\* The caller has taken its result: the call's frame is gone, and the caller
\* may call again.
Return(p) ==
    /\ pc[p] = "done"
    /\ pc' = [pc EXCEPT ![p] = "idle"]
    /\ call' = [call EXCEPT ![p] = NoCall]
    /\ loc' = [loc EXCEPT ![p] = NoLocals]
    /\ ret' = [ret EXCEPT ![p] = 0]
    /\ UNCHANGED <<perm, gr>>

Step(p) ==
    \/ N1DoSplit(p) \/ N1DoCorner(p) \/ N1DoSum(p)
    \/ N2DoSkew(p) \/ N2DoCorner(p) \/ N2DoSum(p)
    \/ N3DoSkew(p) \/ N3DoCorner(p) \/ N3DoSum(p)
    \/ Return(p)

(***************************************************************************)
(* Concurrent callers on a few arguments.                                  *)
(***************************************************************************)
SharedArgs1 == {75695}
SharedArgs2 == {<<3001, -9>>}
SharedArgs3 == {<<1000, 2000, 3000>>}

Next ==
    \E p \in Callers :
        \/ \E x \in SharedArgs1 : CallNoise1(p, x)
        \/ \E a \in SharedArgs2 : CallNoise2(p, a[1], a[2])
        \/ \E a \in SharedArgs3 : CallNoise3(p, a[1], a[2], a[3])
        \/ Step(p)

Spec == Init /\ [][Next]_vars

(***************************************************************************)
(* One caller over the sampled coordinate domain: the ends of the int32    *)
(* range, the lattice points, the arguments where the evaluators reach     *)
(* their extreme values, and a grid.                                       *)
(***************************************************************************)
Domain1 ==
    {0, 1, 4095, 4096, -1, -4096, MaxInt32, MinInt32, 75695, 641020}
        \cup {-4096 + 1365 * a : a \in 0..GridN}

Domain2 ==
    {<<0, 0>>, <<4304, 1042366>>, <<2569, 180471>>, <<3001, -9>>, <<-1, -1>>,
     <<MaxInt32, MaxInt32>>, <<MinInt32, MinInt32>>, <<MinInt32, MaxInt32>>,
     <<123456, -7654321>>, <<1073746128, -1072699458>>, <<-2147482404, 2147064778>>,
     <<718135, 11473>>}
        \cup {<<-4096 + 1777 * a, -3000 + 2311 * b>> : a, b \in 0..GridN}

Domain3 ==
    {<<0, 0, 0>>, <<-1, -1, -1>>, <<MaxInt32, MaxInt32, MaxInt32>>,
     <<MinInt32, MinInt32, MinInt32>>, <<MinInt32, MaxInt32, -1>>,
     <<5000, -7000, 123456>>, <<2000, 2000, 0>>, <<0, 2000, 2000>>, <<3001, 285, 0>>}
        \cup {<<-4096 + 1777 * a, -3000 + 2311 * b, 2999 * c>> : a, b, c \in 0..GridN}

NextSeq ==
    \/ \E x \in Domain1 : CallNoise1(1, x)
    \/ \E a \in Domain2 : CallNoise2(1, a[1], a[2])
    \/ \E a \in Domain3 : CallNoise3(1, a[1], a[2], a[3])
    \/ Step(1)

SpecSeq == Init /\ [][NextSeq]_vars

(***************************************************************************)
(* The gradient helpers evaluated directly.                                *)
(***************************************************************************)
Hashes == 0..255

GradDomain1 == {MinInt32, -4096, -4095, -1, 0, 1, 3, 4095, MaxInt32}
GradDomain2 == {<<MinInt32, MaxInt32>>, <<-4095, 17>>, <<0, 0>>, <<3, 5>>}
GradDomain3 ==
    {<<MinInt32, MaxInt32, -1>>, <<MaxInt32, MaxInt32, MaxInt32>>, <<3, 5, 7>>, <<0, 0, 0>>,
     <<-4095, 17, 2048>>, <<1, 0, 0>>, <<0, 1, 0>>, <<0, 0, 1>>}

EvalGrad1(h, x) ==
    /\ gr.fn = "none"
    /\ gr' = [fn |-> "grad1", hash |-> h, args |-> <<x>>, out |-> grad1(h, x)]
    /\ UNCHANGED <<perm, pc, call, loc, ret>>

EvalGrad2(h, x, y) ==
    /\ gr.fn = "none"
    /\ gr' = [fn |-> "grad2", hash |-> h, args |-> <<x, y>>, out |-> grad2(h, x, y)]
    /\ UNCHANGED <<perm, pc, call, loc, ret>>

EvalGrad3(h, x, y, z) ==
    /\ gr.fn = "none"
    /\ gr' = [fn |-> "grad3", hash |-> h, args |-> <<x, y, z>>, out |-> grad3(h, x, y, z)]
    /\ UNCHANGED <<perm, pc, call, loc, ret>>

\* The value has been used; the next evaluation is independent of it.
GradReturn ==
    /\ gr.fn # "none"
    /\ gr' = NoGrad
    /\ UNCHANGED <<perm, pc, call, loc, ret>>

NextGrad ==
    \/ \E h \in Hashes :
          \/ \E x \in GradDomain1 : EvalGrad1(h, x)
          \/ \E a \in GradDomain2 : EvalGrad2(h, a[1], a[2])
          \/ \E a \in GradDomain3 : EvalGrad3(h, a[1], a[2], a[3])
    \/ GradReturn

SpecGrad == Init /\ [][NextGrad]_vars

(***************************************************************************)
(* Properties.                                                             *)
(***************************************************************************)
Bytes == 0..255
Int16Range == -32768..32767

\* C1: perm has exactly 256 entries, indexed 0..255, and every byte value
\* 0..255 is the entry of some index; 256 indices onto 256 values, so of exactly
\* one index.
PermIsPermutation ==
    /\ DOMAIN perm = Bytes
    /\ Cardinality(DOMAIN perm) = 256
    /\ {perm[i] : i \in DOMAIN perm} = Bytes

\* A call of Noise3 has returned and the table still starts 151 and ends 180.
PermIsPermutationSeen ==
    /\ \E p \in Callers : pc[p] = "done" /\ call[p].fn = "Noise3"
    /\ perm[0] = 151 /\ perm[255] = 180

\* The value a call returns when it runs alone on the initial table.
LoneCall(c) ==
    CASE c.fn = "Noise1" -> Noise1(PermInit, c.args[1])
      [] c.fn = "Noise2" -> Noise2(PermInit, c.args[1], c.args[2])
      [] c.fn = "Noise3" -> Noise3(PermInit, c.args[1], c.args[2], c.args[3])

\* C2: under every interleaving of the callers' steps perm keeps its initial
\* value, and a call that has finished returns what the same call returns when
\* it runs alone.
NoSharedWrites ==
    /\ perm = PermInit
    /\ \A p \in Callers : pc[p] = "done" => ret[p] = LoneCall(call[p])

\* Two callers have finished the same call of Noise2 at the same time, after
\* interleaved steps, with the same result.
NoSharedWritesSeen ==
    /\ pc[1] = "done" /\ pc[2] = "done"
    /\ call[1] = call[2] /\ call[1].fn = "Noise2"
    /\ ret[1] = ret[2]

\* C3: every index a call has used to read perm, the nested ones included, is
\* in 0..255, and no call panics.
IndicesInBounds ==
    \A p \in Callers : loc[p].reads \subseteq Bytes /\ pc[p] # "panic"

\* Noise3 has returned for the most negative coordinates, after three reads
\* or more.
IndicesInBoundsSeen ==
    /\ pc[1] = "done"
    /\ call[1] = [fn |-> "Noise3", args |-> <<MinInt32, MinInt32, MinInt32>>]
    /\ loc[1].reads # {}

\* C4: in Noise1 no int32 intermediate wraps, the rescaled sum is within
\* int16 before the conversion, and the value returned is that sum.
Noise1InRange ==
    \A p \in Callers :
        call[p].fn = "Noise1" =>
            /\ ~loc[p].wraps
            /\ pc[p] = "done" => loc[p].out \in Int16Range /\ ret[p] = loc[p].out

\* Noise1 has returned the largest int16.
Noise1InRangeSeen ==
    pc[1] = "done" /\ call[1].fn = "Noise1" /\ loc[1].out = 32767 /\ ret[1] = 32767

\* C5: in Noise2, over the sampled domain, the sum of the contributions and
\* its shift do not wrap, and the rescaled sum is within int16 before the
\* conversion.
Noise2InRange ==
    \A p \in Callers :
        (call[p].fn = "Noise2" /\ pc[p] = "done") =>
            /\ ~loc[p].wraps
            /\ loc[p].out \in Int16Range

\* Noise2 has returned -32767, the least value found.
Noise2InRangeSeen ==
    pc[1] = "done" /\ call[1].fn = "Noise2" /\ loc[1].out = -32767

\* The rescaled sum of the contributions n of the corners whose falloff t is open.
OpenSum(fn, t, n) ==
    LET m == [c \in DOMAIN n |-> IF t[c] > 0 THEN n[c] ELSE 0]
    IN  IF fn = "Noise2" THEN N2Scale(m[1], m[2], m[3])
        ELSE N3Scale(m[1], m[2], m[3], m[4])

\* C7: in Noise2 and Noise3 a corner whose falloff t is <= 0 contributes
\* exactly 0, and the result is the rescaled sum of the corners with t > 0.
ClosedCornersAreZero ==
    \A p \in Callers :
        call[p].fn \in {"Noise2", "Noise3"} =>
            /\ \A c \in DOMAIN loc[p].t : loc[p].t[c] <= 0 => loc[p].n[c] = 0
            /\ pc[p] = "done" => loc[p].out = OpenSum(call[p].fn, loc[p].t, loc[p].n)

\* Noise3 has returned with a closed corner and an open corner that
\* contributes.
ClosedCornersAreZeroSeen ==
    /\ pc[1] = "done" /\ call[1].fn = "Noise3"
    /\ \E c, d \in DOMAIN loc[1].t :
          loc[1].t[c] <= 0 /\ loc[1].t[d] > 0 /\ loc[1].n[d] # 0

UnitSteps == {<<1, 0, 0>>, <<0, 1, 0>>, <<0, 0, 1>>}
PairSteps == {<<1, 1, 0>>, <<1, 0, 1>>, <<0, 1, 1>>}

\* C8: in Noise3 the second corner steps along one axis, an axis of greatest
\* offset; the third steps along two axes, the second corner's among them, and
\* leaves out an axis of least offset; and x0 >= y0 >= z0 gives X Y Z order.
LatticePath ==
    \A p \in Callers :
        (call[p].fn = "Noise3" /\ loc[p].sk # <<>>) =>
            LET o == loc[p].sk.off[1]
                s1 == loc[p].sk.step[2]
                s2 == loc[p].sk.step[3]
            IN  /\ s1 \in UnitSteps
                /\ s2 \in PairSteps
                /\ \A a \in 1..3 : s2[a] >= s1[a]
                /\ \A a, b \in 1..3 : s1[a] = 1 => ~Less64(o[a], o[b])
                /\ \A a, b \in 1..3 : s2[a] = 0 => ~Less64(o[b], o[a])
                /\ (~Less64(o[1], o[2]) /\ ~Less64(o[2], o[3])) =>
                       (s1 = <<1, 0, 0>> /\ s2 = <<1, 1, 0>>)

\* Noise3 has ordered three equal offsets.
LatticePathSeen ==
    /\ call[1].fn = "Noise3" /\ loc[1].sk # <<>>
    /\ loc[1].sk.off[1][1] = loc[1].sk.off[1][2]
    /\ loc[1].sk.off[1][2] = loc[1].sk.off[1][3]
    /\ loc[1].sk.step[2] = <<1, 0, 0>> /\ loc[1].sk.step[3] = <<1, 1, 0>>

\* C9: in Noise2 and Noise3 each cell index is floor((coordinate + s) / 4096),
\* so each skewed offset coordinate + s - 4096 * index is in [0, 4096).
CellIsFloor ==
    \A p \in Callers :
        (call[p].fn \in {"Noise2", "Noise3"} /\ loc[p].sk # <<>>) =>
            \A a \in DOMAIN call[p].args :
                I64(loc[p].sk.cell[a]) =
                    Shr64(Add64(I64(call[p].args[a]), I64(loc[p].sk.s)), 12)

\* C6: grad1(hash, x) = -grad1(hash, -x) in wrapping int32 arithmetic.
Grad1Odd ==
    gr.fn = "grad1" => gr.out = Neg32(grad1(gr.hash, Neg32(gr.args[1])))

\* grad1 has been evaluated where the product wraps: -8 * (2^31 - 1) is 8.
Grad1OddSeen ==
    gr.fn = "grad1" /\ gr.hash = 15 /\ gr.args = <<MaxInt32>> /\ gr.out = 8

\* The direction grad3 selects for a hash: its values on the unit vectors.
Direction3(h) == <<grad3(h, 1, 0, 0), grad3(h, 0, 1, 0), grad3(h, 0, 0, 1)>>

\* The 12 directions with two components +1 or -1 and one component 0.
EdgeDirections ==
    {d \in [1..3 -> {-1, 0, 1}] : Cardinality({a \in 1..3 : d[a] = 0}) = 1}

Dot3(d, a) == Add32(Add32(Mul32(d[1], a[1]), Mul32(d[2], a[2])), Mul32(d[3], a[3]))

\* The direction of every hash byte.
DirectionOf == [h \in Hashes |-> Direction3(h)]

\* hash & 15 yields exactly the 12 edge directions, 12..15 repeating 0..11.
TwelveDirections ==
    /\ {DirectionOf[h] : h \in 0..15} = EdgeDirections
    /\ Cardinality({DirectionOf[h] : h \in 0..15}) = 12
    /\ \A h \in 12..15 : \E k \in 0..11 : DirectionOf[h] = DirectionOf[k]

\* C10: grad3 is the dot product with a cube-edge direction; hash & 15 yields
\* exactly the 12 of them, and 12..15 repeat directions of 0..11.
Grad3IsEdgeDot ==
    /\ gr.fn = "grad3" =>
          /\ DirectionOf[gr.hash] \in EdgeDirections
          /\ gr.out = Dot3(DirectionOf[gr.hash], gr.args)
    /\ TwelveDirections

\* grad3 has been evaluated for a repeated direction: hash 14 gives y - x.
Grad3IsEdgeDotSeen ==
    gr.fn = "grad3" /\ gr.hash = 14 /\ gr.args = <<3, 5, 7>> /\ gr.out = 2

====
